---- MODULE Spec2Model ----
(***************************************************************************)
(* Model of src/src/pipeline_stage1.py: main() reads MATCHES.csv, checks   *)
(* the schema, builds the working table X, encodes the label y, derives    *)
(* the differential features and the partition year, splits by year,       *)
(* prints four diagnostic lines and writes data/stage1_features.csv.       *)
(*                                                                         *)
(* The pandas calls are modelled by what they do under pandas 2.x (the     *)
(* release line current when the script was written):                      *)
(*   - read_csv infers one dtype per column from all of its cells;         *)
(*   - astype(str) renders a missing value as the text "nan";              *)
(*   - to_datetime(errors="coerce") yields an object column when the       *)
(*     parsed values carry different UTC offsets, and the .dt accessor     *)
(*     rejects an object column.                                           *)
(* Texts are sequences of one-character strings.  The input is a file     *)
(* that read_csv can load: a header and rectangular rows.                  *)
(***************************************************************************)
EXTENDS Integers, Sequences, FiniteSets, TLC

\* Largest number of data rows of the input file.
MaxRows == 2

\* Year thresholds of the chronological split.
TrainLastYear == 2022
ValidationYear == 2023
TestYear == 2024

----------------------------------------------------------------------------
\* Texts

Digits == <<"0", "1", "2", "3", "4", "5", "6", "7", "8", "9">>
LowerLetters == <<"a", "b", "c", "d", "e", "f", "g", "h", "i", "j", "k", "l", "m",
                  "n", "o", "p", "q", "r", "s", "t", "u", "v", "w", "x", "y", "z">>
UpperLetters == <<"A", "B", "C", "D", "E", "F", "G", "H", "I", "J", "K", "L", "M",
                  "N", "O", "P", "Q", "R", "S", "T", "U", "V", "W", "X", "Y", "Z">>

IsDigit(c) == \E i \in 1..10 : Digits[i] = c
DigitVal(c) == (CHOOSE i \in 1..10 : Digits[i] = c) - 1

AllDigits(s) == Len(s) > 0 /\ \A i \in 1..Len(s) : IsDigit(s[i])

\* int("0910") = 910: the value of a run of decimal digits.
RECURSIVE ParseInt(_)
ParseInt(s) ==
    IF Len(s) = 0 THEN 0
    ELSE 10 * ParseInt(SubSeq(s, 1, Len(s) - 1)) + DigitVal(s[Len(s)])

\* str(n) for n >= 0.
RECURSIVE IntToStr(_)
IntToStr(n) ==
    IF n < 10 THEN <<Digits[n + 1]>>
    ELSE IntToStr(n \div 10) \o <<Digits[(n % 10) + 1]>>

\* str.upper() of one character.
UpperChar(c) ==
    IF \E i \in 1..26 : LowerLetters[i] = c
    THEN UpperLetters[CHOOSE i \in 1..26 : LowerLetters[i] = c]
    ELSE c

\* str.upper()
upper(s) == [i \in 1..Len(s) |-> UpperChar(s[i])]

----------------------------------------------------------------------------
\* Cells of a data frame

Na == [k |-> "na", n |-> 0, s |-> <<>>]
None == [k |-> "none", n |-> 0, s |-> <<>>]
IntCell(n) == [k |-> "int", n |-> n, s |-> <<>>]
FloatCell(n) == [k |-> "float", n |-> n, s |-> <<>>]
StrCell(s) == [k |-> "str", n |-> 0, s |-> s]

\* isna(): NaN and None are both missing.
isna(v) == v.k \in {"na", "none"}
notna(v) == ~isna(v)

----------------------------------------------------------------------------
\* The input file and read_csv

MATCHES_CSV == "external/Club-Football-Match-Data-2000-2025/data/MATCHES.csv"

must_have == <<"MatchDate", "FTResult", "HomeTeam", "AwayTeam">>

\* The optional source columns read with df.get, as <<column of X, column of df>>.
OptionalColumns ==
    << <<"elo_h", "HomeElo">>,         <<"elo_a", "AwayElo">>,
       <<"form3_h", "Form3Home">>,     <<"form3_a", "Form3Away">>,
       <<"form5_h", "Form5Home">>,     <<"form5_a", "Form5Away">>,
       <<"shots_h", "HomeShots">>,     <<"shots_a", "AwayShots">>,
       <<"sot_h", "HomeTarget">>,      <<"sot_a", "AwayTarget">>,
       <<"corners_h", "HomeCorners">>, <<"corners_a", "AwayCorners">>,
       <<"yc_h", "HomeYellow">>,       <<"yc_a", "AwayYellow">>,
       <<"rc_h", "HomeRed">>,          <<"rc_a", "AwayRed">>,
       <<"season", "Season">>,         <<"league", "Division">> >>

Range(q) == {q[i] : i \in 1..Len(q)}

\* Texts read_csv takes for a missing value (a part of its default list).
NaTexts == {<<>>, <<"N", "A">>, <<"n", "a", "n">>, <<"N", "a", "N">>}

\* The dtype read_csv(low_memory=False) infers for column c from all of its cells:
\* a column of integer literals is int64, or float64 when a cell is missing (so
\* is a column of missing cells only); any other text makes the column object.
ColumnDtype(rows, c) ==
    LET texts == {rows[i][c] : i \in 1..Len(rows)} \ NaTexts
        hasNa == \E i \in 1..Len(rows) : rows[i][c] \in NaTexts
    IN  IF Len(rows) = 0 THEN "object"
        ELSE IF \A t \in texts : AllDigits(t)
             THEN (IF hasNa THEN "float64" ELSE "int64")
             ELSE "object"

ReadCell(dtype, t) ==
    IF t \in NaTexts THEN Na
    ELSE IF dtype = "int64" THEN IntCell(ParseInt(t))
    ELSE IF dtype = "float64" THEN FloatCell(ParseInt(t))
    ELSE StrCell(t)

read_csv(file) ==
    [columns |-> file.header,
     rows |-> [i \in 1..Len(file.rows) |->
                 [c \in file.header |->
                    ReadCell(ColumnDtype(file.rows, c), file.rows[i][c])]]]

\* Series.astype(str): str() of each value; NaN becomes "nan", 910.0 "910.0".
astype_str(v) ==
    IF v.k = "na" THEN StrCell(<<"n", "a", "n">>)
    ELSE IF v.k = "none" THEN StrCell(<<"N", "o", "n", "e">>)
    ELSE IF v.k = "int" THEN StrCell(IntToStr(v.n))
    ELSE IF v.k = "float" THEN StrCell(IntToStr(v.n) \o <<".", "0">>)
    ELSE v

----------------------------------------------------------------------------
\* pd.to_datetime(errors="coerce")

NaT == [k |-> "na", y |-> 0, m |-> 0, d |-> 0, tz |-> <<>>]
Timestamp(y, m, d, tz) == [k |-> "ts", y |-> y, m |-> m, d |-> d, tz |-> tz]

IsLeap(y) == (y % 4 = 0 /\ y % 100 # 0) \/ y % 400 = 0

DaysInMonth(y, m) ==
    IF m = 2 THEN (IF IsLeap(y) THEN 29 ELSE 28)
    ELSE IF m \in {4, 6, 9, 11} THEN 30 ELSE 31

\* "YYYY-MM-DD" naming a day a nanosecond Timestamp can hold.
IsIsoDate(s) ==
    /\ Len(s) >= 10
    /\ AllDigits(SubSeq(s, 1, 4)) /\ s[5] = "-"
    /\ AllDigits(SubSeq(s, 6, 7)) /\ s[8] = "-"
    /\ AllDigits(SubSeq(s, 9, 10))
    /\ ParseInt(SubSeq(s, 1, 4)) \in 1678..2261
    /\ ParseInt(SubSeq(s, 6, 7)) \in 1..12
    /\ ParseInt(SubSeq(s, 9, 10)) \in
          1..DaysInMonth(ParseInt(SubSeq(s, 1, 4)), ParseInt(SubSeq(s, 6, 7)))

\* "Thh:mm:ss+hh:mm" after the date.
IsIsoTimeOffset(s) ==
    /\ Len(s) = 25 /\ s[11] = "T"
    /\ AllDigits(SubSeq(s, 12, 13)) /\ s[14] = ":"
    /\ AllDigits(SubSeq(s, 15, 16)) /\ s[17] = ":"
    /\ AllDigits(SubSeq(s, 18, 19))
    /\ ParseInt(SubSeq(s, 12, 13)) < 24
    /\ ParseInt(SubSeq(s, 15, 16)) < 60
    /\ ParseInt(SubSeq(s, 18, 19)) < 60
    /\ s[20] \in {"+", "-"}
    /\ AllDigits(SubSeq(s, 21, 22)) /\ s[23] = ":"
    /\ AllDigits(SubSeq(s, 24, 25))

\* One value: a number counts nanoseconds from 1970-01-01; a text is parsed
\* as an ISO date, with or without time and UTC offset; anything else is NaT.
to_datetime(v) ==
    IF isna(v) THEN NaT
    ELSE IF v.k \in {"int", "float"} THEN Timestamp(1970, 1, 1, <<>>)
    ELSE IF IsIsoDate(v.s) /\ Len(v.s) = 10
         THEN Timestamp(ParseInt(SubSeq(v.s, 1, 4)), ParseInt(SubSeq(v.s, 6, 7)),
                        ParseInt(SubSeq(v.s, 9, 10)), <<>>)
    ELSE IF IsIsoDate(v.s) /\ IsIsoTimeOffset(v.s)
         THEN Timestamp(ParseInt(SubSeq(v.s, 1, 4)), ParseInt(SubSeq(v.s, 6, 7)),
                        ParseInt(SubSeq(v.s, 9, 10)), SubSeq(v.s, 20, 25))
    ELSE NaT

\* The dtype of the parsed column: values with different UTC offsets cannot
\* share a datetime64 column and are returned as an object column.
DatetimeDtype(dates) ==
    IF Cardinality({dates[i].tz : i \in {j \in 1..Len(dates) : dates[j].k = "ts"}}) > 1
    THEN "object"
    ELSE "datetime64"

----------------------------------------------------------------------------
\* Steps of main() on a table

\* X = pd.DataFrame({...}): its columns in the order of the dict.
XColumns ==
    <<"date", "home", "away", "result">> \o
    [i \in 1..Len(OptionalColumns) |-> OptionalColumns[i][1]]

\* df.get(c): the column, or None when df has no such column.
df_get(frame, r, c) == IF c \in frame.columns THEN r[c] ELSE None

\* One row of the dict of columns; a None column is broadcast to every row.
ProjectRow(frame, r) ==
    [c \in Range(XColumns) |->
        IF c = "date" THEN to_datetime(r["MatchDate"])
        ELSE IF c = "home" THEN r["HomeTeam"]
        ELSE IF c = "away" THEN r["AwayTeam"]
        ELSE IF c = "result" THEN StrCell(upper(astype_str(r["FTResult"]).s))
        ELSE df_get(frame, r,
                    OptionalColumns[CHOOSE i \in 1..Len(OptionalColumns) :
                                        OptionalColumns[i][1] = c][2])]

\* X.dropna(subset=cols): the rows with no missing value in cols, in order.
dropna(T, cols) ==
    [T EXCEPT !.rows = SelectSeq(@, LAMBDA r : \A c \in cols : notna(r.v[c]))]

\* pd.DataFrame({...}).dropna(subset=["date", "result"]); idx is the index label.
BuildFrame(frame) ==
    LET rows == [i \in 1..Len(frame.rows) |->
                    [idx |-> i, v |-> ProjectRow(frame, frame.rows[i])]]
    IN  dropna([columns |-> XColumns,
                rows |-> rows,
                date_dtype |-> DatetimeDtype([i \in 1..Len(rows) |-> rows[i].v["date"]])],
               {"date", "result"})

\* X[name] = series: a new last column, one value per row.
AddColumn(T, name, series) ==
    [columns |-> Append(T.columns, name),
     rows |-> [i \in 1..Len(T.rows) |->
                 [idx |-> T.rows[i].idx,
                  v |-> (name :> series[i]) @@ T.rows[i].v]],
     date_dtype |-> T.date_dtype]

\* The mapping with the codes of away win and home win exchanged.
map_features_swapped(s) ==
    IF s = <<"A">> THEN IntCell(3)
    ELSE IF s = <<"D">> THEN IntCell(2)
    ELSE IF s = <<"H">> THEN IntCell(1)
    ELSE Na

\* X["result"].map({"A": 1, "D": 2, "H": 3}).astype("Int64")
map_features(s) ==
    IF s = <<"A">> THEN IntCell(1)
    ELSE IF s = <<"D">> THEN IntCell(2)
    ELSE IF s = <<"H">> THEN IntCell(3)
    ELSE Na

EncodeLabel(T) ==
    dropna(AddColumn(T, "y", [i \in 1..Len(T.rows) |->
                                 map_features(T.rows[i].v["result"].s)]),
           {"y"})

\* pd.to_numeric(s, errors="coerce") of one value.
fnum(v) ==
    IF isna(v) THEN Na
    ELSE IF v.k = "str" THEN (IF AllDigits(v.s) THEN FloatCell(ParseInt(v.s)) ELSE Na)
    ELSE FloatCell(v.n)

\* Subtraction that takes a missing operand for 0.
Minus_zero(a, b) ==
    FloatCell((IF isna(a) THEN 0 ELSE a.n) - (IF isna(b) THEN 0 ELSE b.n))

\* a - b on float64 values: NaN when either is NaN.
Minus(a, b) == IF isna(a) \/ isna(b) THEN Na ELSE FloatCell(a.n - b.n)

Difference(T, h, a, n) ==
    AddColumn(T, n, [i \in 1..Len(T.rows) |->
                       Minus(fnum(T.rows[i].v[h]), fnum(T.rows[i].v[a]))])

AlwaysPairs ==
    << <<"elo_h", "elo_a", "d_elo">>,
       <<"form3_h", "form3_a", "d_form3">>,
       <<"form5_h", "form5_a", "d_form5">> >>

ConditionalPairs ==
    << <<"shots_h", "shots_a", "d_shots">>,
       <<"sot_h", "sot_a", "d_sot">>,
       <<"corners_h", "corners_a", "d_corners">>,
       <<"yc_h", "yc_a", "d_yc">>,
       <<"rc_h", "rc_a", "d_rc">> >>

\* "h in X and a in X": both are column labels of X.
BothPresent(T, h, a) == h \in Range(T.columns) /\ a \in Range(T.columns)

RECURSIVE AddAlways(_, _)
AddAlways(T, pairs) ==
    IF Len(pairs) = 0 THEN T
    ELSE AddAlways(Difference(T, pairs[1][1], pairs[1][2], pairs[1][3]), Tail(pairs))

RECURSIVE AddConditional(_, _)
AddConditional(T, pairs) ==
    IF Len(pairs) = 0 THEN T
    ELSE AddConditional(
            IF BothPresent(T, pairs[1][1], pairs[1][2])
            THEN Difference(T, pairs[1][1], pairs[1][2], pairs[1][3])
            ELSE T,
            Tail(pairs))

DifferenceFeatures(T) == AddConditional(AddAlways(T, AlwaysPairs), ConditionalPairs)

\* Series.str.extract(r"(\d{4})")[0]: the first four consecutive digits, or NaN.
extract4(s) ==
    LET I == {i \in 1..(Len(s) - 3) : AllDigits(SubSeq(s, i, i + 3))}
    IN  IF I = {} THEN Na
        ELSE StrCell(SubSeq(s, CHOOSE i \in I : \A j \in I : i <= j,
                               (CHOOSE i \in I : \A j \in I : i <= j) + 3))

\* fillna that leaves the value as it is.
fillna_none(a, b) == a

\* Series.fillna(other) of one value.
fillna(a, b) == IF isna(a) THEN b ELSE a

\* The test written with all() in place of any().
AllSeason(T) == \A i \in 1..Len(T.rows) : notna(T.rows[i].v["season"])

\* X["season"].notna().any()
AnySeason(T) == \E i \in 1..Len(T.rows) : notna(T.rows[i].v["season"])

\* The year of one row, before astype(int).
SeasonYear(v) ==
    fillna(fnum(extract4(astype_str(v["season"]).s)), FloatCell(v["date"].y))

DateYear(v) == FloatCell(v["date"].y)

PartitionYear(T) ==
    IF AnySeason(T)
    THEN AddColumn(T, "year",
                   [i \in 1..Len(T.rows) |-> IntCell(SeasonYear(T.rows[i].v).n)])
    ELSE AddColumn(T, "year",
                   [i \in 1..Len(T.rows) |-> IntCell(DateYear(T.rows[i].v).n)])

\* astype(int) raises on NaN.
YearCastFails(T) ==
    AnySeason(T) /\ \E i \in 1..Len(T.rows) : isna(SeasonYear(T.rows[i].v))

\* The validation mask written as "from 2023 on".
InValidation_from(T) == [i \in 1..Len(T.rows) |-> T.rows[i].v["year"].n >= ValidationYear]

\* The boolean masks X["year"] <= 2022, == 2023, == 2024.
InTrain(T) == [i \in 1..Len(T.rows) |-> T.rows[i].v["year"].n <= TrainLastYear]
InValidation(T) == [i \in 1..Len(T.rows) |-> T.rows[i].v["year"].n = ValidationYear]
InTest(T) == [i \in 1..Len(T.rows) |-> T.rows[i].v["year"].n = TestYear]

\* X[mask]: the rows where the mask holds, in order.
Select(T, mask) ==
    LET kept == SelectSeq([i \in 1..Len(T.rows) |-> i], LAMBDA i : mask[i])
    IN  [T EXCEPT !.rows = [j \in 1..Len(kept) |-> T.rows[kept[j]]]]

\* [c for c in X.columns if c.startswith("d_")]
StartsWithD(c) ==
    c \in {"d_elo", "d_form3", "d_form5", "d_shots", "d_sot", "d_corners", "d_yc", "d_rc"}

FeatureCols(T) == SelectSeq(T.columns, StartsWithD)

\* train["y"].value_counts(normalize=True).sort_index().to_dict():
\* each label of the training rows with <<its count, the number of rows>>.
ClassBalance(T) ==
    LET ys == {T.rows[i].v["y"].n : i \in 1..Len(T.rows)}
    IN  [y \in ys |->
            <<Cardinality({i \in 1..Len(T.rows) : T.rows[i].v["y"].n = y}), Len(T.rows)>>]

\* X[out_cols].to_csv(..., index=False)
OutCols(fc) == <<"date", "home", "away", "y", "year">> \o fc

\* Writing the rows of the three splits only.
ToCsv_splits(T, cols) ==
    [columns |-> cols,
     rows |-> [i \in 1..Len(Select(T, [j \in 1..Len(T.rows) |->
                                           T.rows[j].v["year"].n <= TestYear]).rows) |->
                 [c \in Range(cols) |->
                    Select(T, [j \in 1..Len(T.rows) |->
                                  T.rows[j].v["year"].n <= TestYear]).rows[i].v[c]]]]

ToCsv(T, cols) ==
    [columns |-> cols,
     rows |-> [i \in 1..Len(T.rows) |-> [c \in Range(cols) |-> T.rows[i].v[c]]]]

----------------------------------------------------------------------------
\* Input files

AllColumns == Range(must_have) \cup {OptionalColumns[i][2] : i \in 1..Len(OptionalColumns)}

HomeStats == {"HomeElo", "Form3Home", "Form5Home", "HomeShots", "HomeTarget",
              "HomeCorners", "HomeYellow", "HomeRed"}

Pad2(n) == IF n < 10 THEN <<"0">> \o IntToStr(n) ELSE IntToStr(n)
DateText(y, m, d) == IntToStr(y) \o <<"-">> \o Pad2(m) \o <<"-">> \o Pad2(d)
NoonAt(off) == <<"T", "1", "2", ":", "0", "0", ":", "0", "0">> \o off

Junk == <<"x">>
Empty == <<>>

\* Dates without UTC offset, one per side of each split threshold.
SplitDates == {DateText(y, 5, 1) : y \in TrainLastYear..(TestYear + 1)}

\* A date, a day that does not exist, a text that is no date, an empty cell.
NaiveDates ==
    {DateText(ValidationYear, 5, 1), DateText(ValidationYear, 2, 30), Junk, Empty}

\* Dates with UTC offset, winter and summer time.
AwareDates ==
    {DateText(ValidationYear, 3, 1) \o NoonAt(<<"+", "0", "1", ":", "0", "0">>),
     DateText(ValidationYear, 7, 1) \o NoonAt(<<"+", "0", "2", ":", "0", "0">>),
     Junk}

Results == {<<"A">>, <<"d">>, <<"H">>, <<"P">>, Empty}

Seasons ==
    {Empty,
     <<"2", "0", "2", "1", "/", "2", "0", "2", "2">>,
     <<"2", "3", "/", "2", "4">>,
     <<"0", "9", "1", "0">>,
     <<"2", "0", "2", "4">>}

HomeValues == {Empty, Junk, <<"3">>, <<"1", "0">>}
AwayValues == {Empty, Junk, <<"7">>}

Cells(D, R, S, H, A) == [d : D, r : R, s : S, h : H, a : A]

\* The i-th data row of the file, one text per column.
RawRow(i, p) ==
    [c \in AllColumns |->
        IF c = "MatchDate" THEN p.d
        ELSE IF c = "FTResult" THEN p.r
        ELSE IF c = "HomeTeam" THEN <<"T", Digits[i + 1]>>
        ELSE IF c = "AwayTeam" THEN <<"V">>
        ELSE IF c = "Season" THEN p.s
        ELSE IF c = "Division" THEN <<"E", "0">>
        ELSE IF c \in HomeStats THEN p.h
        ELSE p.a]

\* The table whose i-th row is made of the cell texts f[i].
Table(f) == [i \in 1..Len(f) |-> RawRow(i, f[i])]

File(exists, header, rows) == [exists |-> exists, header |-> header, rows |-> rows]

\* Headers lacking at most two columns, and the header of the required columns only.
Headers ==
    {AllColumns \ D : D \in {E \in SUBSET AllColumns : Cardinality(E) <= 2}}
    \cup {Range(must_have)}

Plain == [d |-> DateText(ValidationYear, 5, 1), r |-> <<"H">>,
          s |-> <<"2", "0", "2", "1", "/", "2", "0", "2", "2">>,
          h |-> <<"3">>, a |-> <<"7">>]

\* Dates against results.
LabelCells == Cells(NaiveDates, Results, {Empty}, {<<"3">>}, {<<"7">>})

\* Dates against season labels, for kept and dropped rows.
YearCells ==
    Cells({DateText(y, 5, 1) : y \in {TrainLastYear, TestYear + 1}},
          {<<"H">>, <<"P">>}, Seasons, {<<"3">>}, {<<"7">>})

\* Home against away statistics.
StatCells ==
    Cells({DateText(ValidationYear, 5, 1)}, {<<"H">>}, {Plain.s}, HomeValues, AwayValues)

\* Dates with UTC offsets.
OffsetCells == Cells(AwareDates, {<<"A">>, <<"P">>}, {Empty}, {<<"3">>}, {<<"7">>})

SchemaCells == {Plain, [Plain EXCEPT !.h = Empty]}

\* Dates across the split thresholds.
SplitCells == Cells(SplitDates, {<<"A">>, <<"H">>}, {Empty}, {<<"3">>}, {<<"7">>})

Families == {LabelCells, YearCells, StatCells, OffsetCells, SplitCells}

----------------------------------------------------------------------------
\* The run

VARIABLES pc, file, df, X, train, validation, test, feature_cols, stdout, out_csv, error

vars == <<pc, file, df, X, train, validation, test, feature_cols, stdout, out_csv, error>>

NoFrame == [columns |-> <<>>, rows |-> <<>>, date_dtype |-> "datetime64"]
NoCsv == [written |-> FALSE, columns |-> <<>>, rows |-> <<>>]
NoError == [type |-> "none", path |-> "", columns |-> <<>>]

\* The input is a file of at most MaxRows rows.
InitFile ==
    \E n \in 0..MaxRows :
        \/ \E K \in Families : \E f \in [1..n -> K] :
              file = File(TRUE, AllColumns, Table(f))
        \/ \E f \in [1..n -> SchemaCells] : \E header \in Headers :
              file = File(TRUE, header, Table(f))
        \/ \E f \in [1..n -> SchemaCells] :
              file = File(FALSE, AllColumns, Table(f))

Init ==
    /\ InitFile
    /\ pc = "start"
    /\ df = [columns |-> {}, rows |-> <<>>]
    /\ X = NoFrame
    /\ train = NoFrame
    /\ validation = NoFrame
    /\ test = NoFrame
    /\ feature_cols = <<>>
    /\ stdout = <<>>
    /\ out_csv = NoCsv
    /\ error = NoError

\* The list written without its filter: every required column.
missing_unfiltered(frame) == must_have

\* [c for c in must_have if c not in df.columns]
missing(frame) == SelectSeq(must_have, LAMBDA c : c \notin frame.columns)

\* if not MATCHES_CSV.exists(): raise FileNotFoundError(...)
RaiseMissingInput ==
    /\ pc = "start"
    /\ ~file.exists
    /\ pc' = "failed"
    /\ error' = [type |-> "FileNotFoundError", path |-> MATCHES_CSV, columns |-> <<>>]
    /\ UNCHANGED <<file, df, X, train, validation, test, feature_cols, stdout, out_csv>>

\* df = pd.read_csv(MATCHES_CSV, low_memory=False)
ReadCsv ==
    /\ pc = "start"
    /\ file.exists
    /\ df' = read_csv(file)
    /\ pc' = "schema"
    /\ UNCHANGED <<file, X, train, validation, test, feature_cols, stdout, out_csv, error>>

\* if missing: raise RuntimeError(...)
RaiseSchema ==
    /\ pc = "schema"
    /\ missing(df) # <<>>
    /\ pc' = "failed"
    /\ error' = [type |-> "RuntimeError", path |-> "", columns |-> missing(df)]
    /\ UNCHANGED <<file, df, X, train, validation, test, feature_cols, stdout, out_csv>>

\* X = pd.DataFrame({...}).dropna(subset=["date", "result"])
Build ==
    /\ pc = "schema"
    /\ missing(df) = <<>>
    /\ X' = BuildFrame(df)
    /\ pc' = "encode"
    /\ UNCHANGED <<file, df, train, validation, test, feature_cols, stdout, out_csv, error>>

\* X["y"] = ...; X = X.dropna(subset=["y"])
Encode ==
    /\ pc = "encode"
    /\ X' = EncodeLabel(X)
    /\ pc' = "features"
    /\ UNCHANGED <<file, df, train, validation, test, feature_cols, stdout, out_csv, error>>

\* X["d_elo"] = ... and the loop over the conditional pairs
Features ==
    /\ pc = "features"
    /\ X' = DifferenceFeatures(X)
    /\ pc' = "year"
    /\ UNCHANGED <<file, df, train, validation, test, feature_cols, stdout, out_csv, error>>

\* X["date"].dt on a column that is not datetime64: AttributeError
RaiseDt ==
    /\ pc = "year"
    /\ X.date_dtype = "object"
    /\ pc' = "failed"
    /\ error' = [type |-> "AttributeError", path |-> "", columns |-> <<>>]
    /\ UNCHANGED <<file, df, X, train, validation, test, feature_cols, stdout, out_csv>>

\* X["year"] = ...; astype(int) raises when a year is still NaN
Year ==
    /\ pc = "year"
    /\ X.date_dtype = "datetime64"
    /\ IF YearCastFails(X)
       THEN /\ pc' = "failed"
            /\ error' = [type |-> "ValueError", path |-> "", columns |-> <<>>]
            /\ X' = X
       ELSE /\ pc' = "split"
            /\ error' = error
            /\ X' = PartitionYear(X)
    /\ UNCHANGED <<file, df, train, validation, test, feature_cols, stdout, out_csv>>

\* train, validation, test and feature_cols
Split ==
    /\ pc = "split"
    /\ train' = Select(X, InTrain(X))
    /\ validation' = Select(X, InValidation(X))
    /\ test' = Select(X, InTest(X))
    /\ feature_cols' = FeatureCols(X)
    /\ pc' = "report"
    /\ UNCHANGED <<file, df, X, stdout, out_csv, error>>

\* the four print calls
Report ==
    /\ pc = "report"
    /\ stdout' = << <<"Total usable matches:", Len(X.rows)>>,
                    <<"Train/Validation/Test:",
                      Len(train.rows), Len(validation.rows), Len(test.rows)>>,
                    <<"Train class balance:", ClassBalance(train)>>,
                    <<"Features used:", feature_cols>> >>
    /\ pc' = "save"
    /\ UNCHANGED <<file, df, X, train, validation, test, feature_cols, out_csv, error>>

\* X[out_cols].to_csv("data/stage1_features.csv", index=False)
Save ==
    /\ pc = "save"
    /\ out_csv' = [written |-> TRUE,
                   columns |-> OutCols(feature_cols),
                   rows |-> ToCsv(X, OutCols(feature_cols)).rows]
    /\ pc' = "done"
    /\ UNCHANGED <<file, df, X, train, validation, test, feature_cols, stdout, error>>

Next ==
    \/ RaiseMissingInput
    \/ ReadCsv
    \/ RaiseSchema
    \/ Build
    \/ Encode
    \/ Features
    \/ RaiseDt
    \/ Year
    \/ Split
    \/ Report
    \/ Save

Spec == Init /\ [][Next]_vars

----------------------------------------------------------------------------
\* What the properties speak about

Done == pc = "done"
YearKnown == pc \in {"split", "report", "save", "done"}

\* The source column of df behind a column of X.
SourceOf(c) ==
    OptionalColumns[CHOOSE i \in 1..Len(OptionalColumns) : OptionalColumns[i][1] = c][2]

\* The text of cell c of the i-th row of the input file.
Raw(i, c) == file.rows[i][c]

\* The row of the input file an output row was made from (its home team is "T<i>").
RowOf(o) == DigitVal(o["home"].s[2])

DateParses(i) == to_datetime(StrCell(Raw(i, "MatchDate"))).k = "ts"
DateYearOf(i) == to_datetime(StrCell(Raw(i, "MatchDate"))).y

\* The label of a result text compared without regard to case; 0 when it has none.
LabelOf(t) ==
    IF t \in {<<"A">>, <<"a">>} THEN 1
    ELSE IF t \in {<<"D">>, <<"d">>} THEN 2
    ELSE IF t \in {<<"H">>, <<"h">>} THEN 3
    ELSE 0

\* The rows of the input file that are to be kept, in order.
Usable(i) == DateParses(i) /\ LabelOf(Raw(i, "FTResult")) # 0
UsableRows == SelectSeq([i \in 1..Len(file.rows) |-> i], Usable)

\* The value of the first run of four digits of a text, -1 when it has none.
RECURSIVE FirstRun(_)
FirstRun(s) ==
    IF Len(s) < 4 THEN -1
    ELSE IF AllDigits(SubSeq(s, 1, 4)) THEN ParseInt(SubSeq(s, 1, 4))
    ELSE FirstRun(Tail(s))

\* The per-row rule: the first run of four digits of the label, else the date's year.
RowRule(label, i) == IF FirstRun(label) >= 0 THEN FirstRun(label) ELSE DateYearOf(i)

\* The season label of row i as loaded: the text of the value read_csv made of it.
LoadedSeason(i) ==
    IF "Season" \in df.columns THEN astype_str(df.rows[i]["Season"]).s ELSE <<>>

SeasonMissing(i) == "Season" \notin file.header \/ Raw(i, "Season") \in NaTexts

----------------------------------------------------------------------------
\* C1: a conditional differential column (d_shots, d_sot, d_corners, d_yc, d_rc)
\* is in the output table if and only if both its home and its away source
\* column are in the header of the input.
C1_ConditionalColumnIffBothSources ==
    Done =>
        \A i \in 1..Len(ConditionalPairs) :
            (ConditionalPairs[i][3] \in Range(out_csv.columns))
            <=> /\ SourceOf(ConditionalPairs[i][1]) \in file.header
                /\ SourceOf(ConditionalPairs[i][2]) \in file.header

\* C2: every output row has y in {1, 2, 3}, the label of its result text
\* compared without regard to case ("A" 1, "D" 2, "H" 3), and a row of the
\* input with any other result, or none, is in no output.
C2_LabelFromResult ==
    Done =>
        /\ \A j \in 1..Len(out_csv.rows) :
              /\ out_csv.rows[j]["y"].k = "int"
              /\ out_csv.rows[j]["y"].n \in {1, 2, 3}
              /\ out_csv.rows[j]["y"].n = LabelOf(Raw(RowOf(out_csv.rows[j]), "FTResult"))
        /\ \A i \in 1..Len(file.rows) :
              LabelOf(Raw(i, "FTResult")) = 0 =>
                  /\ \A j \in 1..Len(out_csv.rows) : RowOf(out_csv.rows[j]) # i
                  /\ \A j \in 1..Len(X.rows) : X.rows[j].idx # i

\* C2 happens: a lower-case draw is written with y = 2 while another row, with
\* result "P" or none, is dropped.
C2_Witness ==
    /\ Done
    /\ \E j \in 1..Len(out_csv.rows) :
          /\ Raw(RowOf(out_csv.rows[j]), "FTResult") = <<"d">>
          /\ out_csv.rows[j]["y"].n = 2
    /\ \E i \in 1..Len(file.rows) : DateParses(i) /\ LabelOf(Raw(i, "FTResult")) = 0

Labels(T) == {T.rows[j].idx : j \in 1..Len(T.rows)}

\* C3: train, validation and test are pairwise disjoint, together they are the
\* retained rows with year <= 2024, a retained row with a later year is in none
\* of them, and the printed split counts add up to the printed total less the
\* number of rows with a later year.
C3_SplitsPartition ==
    pc \in {"report", "save", "done"} =>
        /\ Labels(train) \cap Labels(validation) = {}
        /\ Labels(train) \cap Labels(test) = {}
        /\ Labels(validation) \cap Labels(test) = {}
        /\ Labels(train) \cup Labels(validation) \cup Labels(test)
              = {X.rows[j].idx : j \in {k \in 1..Len(X.rows) : X.rows[k].v["year"].n <= 2024}}
        /\ \A j \in 1..Len(X.rows) :
              /\ X.rows[j].idx \in Labels(train) <=> X.rows[j].v["year"].n <= 2022
              /\ X.rows[j].idx \in Labels(validation) <=> X.rows[j].v["year"].n = 2023
              /\ X.rows[j].idx \in Labels(test) <=> X.rows[j].v["year"].n = 2024
        /\ Cardinality(Labels(train)) = Len(train.rows)
        /\ Cardinality(Labels(validation)) = Len(validation.rows)
        /\ Cardinality(Labels(test)) = Len(test.rows)
        /\ (pc # "report" =>
              stdout[2][2] + stdout[2][3] + stdout[2][4]
                 = stdout[1][2]
                   - Cardinality({k \in 1..Len(X.rows) : X.rows[k].v["year"].n > 2024}))

\* C3 happens: the counts are printed for a table with a row in a split and a
\* row whose year is later than 2024.
C3_Witness ==
    /\ Done
    /\ Len(train.rows) + Len(validation.rows) + Len(test.rows) > 0
    /\ \E j \in 1..Len(X.rows) : X.rows[j].v["year"].n > 2024

\* C4 as stated: the year of every retained row is an integer; if any row has
\* a season label, it is the first run of four digits of the row's season label
\* as written in the file, or the date's year when the label is missing or has
\* no such run; if no row has a season label it is the date's year.
C4_YearFromWrittenLabel ==
    YearKnown =>
        \A j \in 1..Len(X.rows) :
            LET i == X.rows[j].idx
                label == IF SeasonMissing(i) THEN <<>> ELSE Raw(i, "Season")
            IN  /\ X.rows[j].v["year"].k = "int"
                /\ IF \E k \in 1..Len(file.rows) : ~SeasonMissing(k)
                   THEN X.rows[j].v["year"].n = RowRule(label, i)
                   ELSE X.rows[j].v["year"].n = DateYearOf(i)

\* C4 as amended: no run fails for a missing year and the year of every retained
\* row is an integer; if any retained row has a season label, it is the first run
\* of four digits of the row's season label as loaded (a Season column of numbers
\* only is loaded as numbers, so "0910" is the text "910", or "910.0" when a cell
\* of the column is empty), or the date's year when the label is missing or has
\* no such run; if no retained row has a season label it is the date's year.
C4_YearFromLoadedLabel ==
    /\ error.type # "ValueError"
    /\ YearKnown =>
        \A j \in 1..Len(X.rows) :
            LET i == X.rows[j].idx
            IN  /\ X.rows[j].v["year"].k = "int"
                /\ IF \E k \in 1..Len(X.rows) : ~SeasonMissing(X.rows[k].idx)
                   THEN IF SeasonMissing(i) \/ FirstRun(LoadedSeason(i)) < 0
                        THEN X.rows[j].v["year"].n = DateYearOf(i)
                        ELSE X.rows[j].v["year"].n = FirstRun(LoadedSeason(i))
                   ELSE X.rows[j].v["year"].n = DateYearOf(i)

\* C4 happens: in one table a row takes the year 2021 from "2021/2022" against
\* its date, and a row without a usable label takes its date's year.
C4_Witness ==
    /\ YearKnown
    /\ \E j \in 1..Len(X.rows) :
          /\ Raw(X.rows[j].idx, "Season") = <<"2", "0", "2", "1", "/", "2", "0", "2", "2">>
          /\ X.rows[j].v["year"].n = 2021
          /\ DateYearOf(X.rows[j].idx) # 2021
    /\ \E j \in 1..Len(X.rows) :
          /\ FirstRun(Raw(X.rows[j].idx, "Season")) < 0
          /\ X.rows[j].v["year"].n = DateYearOf(X.rows[j].idx)

\* C5: a row of the input is retained (counted and written) if and only if its
\* date parses and its result maps to a label, and the rows with a missing or
\* unparseable date or a missing result are already gone when the label is
\* computed.
C5_DroppedBeforeLabel ==
    /\ Done =>
          /\ {RowOf(out_csv.rows[j]) : j \in 1..Len(out_csv.rows)}
                = {i \in 1..Len(file.rows) : Usable(i)}
          /\ stdout[1][2] = Cardinality({i \in 1..Len(file.rows) : Usable(i)})
          /\ \A j \in 1..Len(X.rows) : notna(X.rows[j].v["date"]) /\ notna(X.rows[j].v["y"])
    /\ pc = "encode" =>
          \A j \in 1..Len(X.rows) :
              /\ DateParses(X.rows[j].idx)
              /\ Raw(X.rows[j].idx, "FTResult") \notin NaTexts

\* C6: with the file present the run fails with the schema error exactly when a
\* required column is absent, naming exactly the absent required columns; with
\* the file absent it fails with the missing-input error naming the path before
\* anything is read; in both cases nothing is printed and nothing is written.
C6_InputAndSchemaErrors ==
    LET absent == {c \in Range(must_have) : c \notin file.header}
    IN  /\ (file.exists /\ absent # {}) =>
              /\ pc \in {"start", "schema", "failed"}
              /\ pc = "failed" =>
                    /\ error.type = "RuntimeError"
                    /\ Range(error.columns) = absent
                    /\ Len(error.columns) = Cardinality(absent)
        /\ (file.exists /\ absent = {}) => error.type # "RuntimeError"
        /\ ~file.exists =>
              /\ pc \in {"start", "failed"}
              /\ df.columns = {}
              /\ pc = "failed" =>
                    /\ error.type = "FileNotFoundError"
                    /\ error.path = MATCHES_CSV
        /\ error.type \in {"RuntimeError", "FileNotFoundError"} =>
              /\ pc = "failed"
              /\ stdout = <<>>
              /\ ~out_csv.written

\* C6 happens: a run has failed naming two absent required columns while the
\* other two, and optional columns, are present.
C6_Witness ==
    /\ pc = "failed"
    /\ error.type = "RuntimeError"
    /\ Len(error.columns) = 2
    /\ Cardinality(file.header \cap Range(must_have)) = 2

\* C7: a run on a file that exists and has the four required columns never
\* fails, whatever its rows hold.
C7_OnlyTwoFailureModes ==
    (file.exists /\ Range(must_have) \subseteq file.header) => pc # "failed"

\* C8: the written table holds every retained row exactly once, those with a
\* year later than 2024 included, in the order of the input with only the
\* dropped rows removed.
C8_OutputAllRetainedInOrder ==
    Done =>
        /\ out_csv.written
        /\ [j \in 1..Len(out_csv.rows) |-> RowOf(out_csv.rows[j])] = UsableRows
        /\ \A j \in 1..Len(out_csv.rows) :
              /\ out_csv.rows[j]["date"].y = DateYearOf(UsableRows[j])
              /\ out_csv.rows[j]["year"] = X.rows[j].v["year"]

\* C8 happens: a table is written from a file where a dropped row comes ahead
\* of a retained one, and a written row has a year later than 2024.
C8_Witness ==
    /\ Done
    /\ Len(UsableRows) < Len(file.rows)
    /\ \E j \in 1..Len(out_csv.rows) : out_csv.rows[j]["year"].n > 2024
    /\ \E j \in 1..Len(file.rows) : ~Usable(j) /\ \E k \in (j + 1)..Len(file.rows) : Usable(k)

\* The number a statistic's text stands for; -1 when it is missing or no number.
NumberOf(i, c) ==
    IF c \in file.header /\ Raw(i, c) \notin NaTexts /\ AllDigits(Raw(i, c))
    THEN ParseInt(Raw(i, c))
    ELSE -1

\* C9: d_elo, d_form3 and d_form5 are in every output, and in every retained row
\* each is the home value less the away value when both are numbers and missing
\* when either is missing, no number, or its column absent; no row is dropped
\* for it.
C9_AlwaysPresentDifferences ==
    Done =>
        /\ Len(out_csv.rows) = Len(UsableRows)
        /\ \A p \in 1..Len(AlwaysPairs) :
              /\ AlwaysPairs[p][3] \in Range(out_csv.columns)
              /\ \A j \in 1..Len(out_csv.rows) :
                    LET i == RowOf(out_csv.rows[j])
                        h == NumberOf(i, SourceOf(AlwaysPairs[p][1]))
                        a == NumberOf(i, SourceOf(AlwaysPairs[p][2]))
                        d == out_csv.rows[j][AlwaysPairs[p][3]]
                    IN  IF h >= 0 /\ a >= 0
                        THEN notna(d) /\ d.n = h - a
                        ELSE isna(d)

\* C9 happens: one table is written with a row whose d_elo is 3 - 7 and a row
\* whose d_elo is missing for a missing or non-numeric operand.
C9_Witness ==
    /\ Done
    /\ \E j \in 1..Len(out_csv.rows) :
          notna(out_csv.rows[j]["d_elo"]) /\ out_csv.rows[j]["d_elo"].n = -4
    /\ \E j \in 1..Len(out_csv.rows) :
          /\ isna(out_csv.rows[j]["d_elo"])
          /\ NumberOf(RowOf(out_csv.rows[j]), "HomeElo") >= 0
             \/ NumberOf(RowOf(out_csv.rows[j]), "AwayElo") >= 0

\* C10 as stated: the year of a retained row is given by its own season label
\* as written in the file and its own date: the first run of four digits of the
\* label, else the date's year, whatever the other rows hold.
C10_YearPerRowWritten ==
    YearKnown =>
        \A j \in 1..Len(X.rows) :
            X.rows[j].v["year"].n =
                RowRule(IF SeasonMissing(X.rows[j].idx) THEN <<>>
                        ELSE Raw(X.rows[j].idx, "Season"),
                        X.rows[j].idx)

\* C10 as amended: the year of a retained row is given by its own season label
\* as loaded and its own date: the first run of four digits of the loaded text,
\* else the date's year, whether or not any other row has a season label.  (The
\* loaded text of a label that is a bare number depends on the other labels of
\* the column.)
C10_YearPerRowLoaded ==
    YearKnown =>
        \A j \in 1..Len(X.rows) :
            X.rows[j].v["year"].n =
                RowRule(IF SeasonMissing(X.rows[j].idx) THEN <<>>
                        ELSE LoadedSeason(X.rows[j].idx),
                        X.rows[j].idx)

\* C10 happens: a retained row has a season label and a year that is not its
\* date's year while another retained row of the table has no season label.
C10_Witness ==
    /\ YearKnown
    /\ \E j \in 1..Len(X.rows) :
          /\ ~SeasonMissing(X.rows[j].idx)
          /\ X.rows[j].v["year"].n # DateYearOf(X.rows[j].idx)
    /\ \E j \in 1..Len(X.rows) : SeasonMissing(X.rows[j].idx)

====
